---- MODULE Spec2Model ----
(***************************************************************************)
(* Model of the canvas navigation of src/src/App.tsx: the camera springs   *)
(* (x, y, scale) driven through api.start, the gesture handlers (onDrag,   *)
(* onWheel, onPinch), the zoom buttons (performCenterZoom), fit-to-content *)
(* (handleSmartCenter) and the per-item drag (DraggableItem.onDrag).       *)
(*                                                                         *)
(* JavaScript numbers are modelled as exact rationals <<n, d>> in lowest   *)
(* terms with d > 0.  An animation is modelled as the linear interpolation *)
(* of a spring value toward its goal over AnimTicks frames.                *)
(***************************************************************************)
EXTENDS Integers, Sequences, FiniteSets, TLC

\* ------------------------------------------------------------------------
\* Bounds of the model
\* ------------------------------------------------------------------------
\* number of input events (handler invocations) in one behaviour
MaxEvents == 3
\* frames an animation takes from api.start to rest
AnimTicks == 2
\* number of those events that give the scale a new goal
MaxZooms == 2
\* an input event is followed only from a state whose coordinates are
\* fractions with a denominator up to MaxDen
MaxDen == 100

\* ------------------------------------------------------------------------
\* Rational arithmetic (JavaScript number)
\* ------------------------------------------------------------------------
Abs(n) == IF n < 0 THEN -n ELSE n

RECURSIVE Gcd(_, _)
Gcd(a, b) == IF b = 0 THEN a ELSE Gcd(b, a % b)

Norm(n, d) ==
  LET s == IF d < 0 THEN -1 ELSE 1
      g == Gcd(Abs(n), Abs(d))
  IN  <<(s * n) \div g, (s * d) \div g>>

R(n, d) == Norm(n, d)
I(n) == <<n, 1>>

RAdd(a, b) ==
  LET g == Gcd(a[2], b[2])
  IN  Norm(a[1] * (b[2] \div g) + b[1] * (a[2] \div g), a[2] * (b[2] \div g))
RNeg(a) == <<-a[1], a[2]>>
RSub(a, b) == RAdd(a, RNeg(b))
RMul(a, b) ==
  LET g1 == Gcd(Abs(a[1]), b[2])
      g2 == Gcd(Abs(b[1]), a[2])
  IN  <<(a[1] \div g1) * (b[1] \div g2), (a[2] \div g2) * (b[2] \div g1)>>
\* division by a non-zero number
RDiv(a, b) ==
  IF b[1] > 0 THEN RMul(a, <<b[2], b[1]>>) ELSE RMul(a, <<-b[2], -b[1]>>)
RLe(a, b) ==
  LET g == Gcd(a[2], b[2])
  IN  a[1] * (b[2] \div g) <= b[1] * (a[2] \div g)
RLt(a, b) == RLe(a, b) /\ a # b
RMin(a, b) == IF RLe(a, b) THEN a ELSE b
RMax(a, b) == IF RLe(a, b) THEN b ELSE a
RIsZero(a) == a[1] = 0

\* ------------------------------------------------------------------------
\* Tuning constants (App.tsx 20-49, 82-87, 249)
\* ------------------------------------------------------------------------
WHEEL_OUT_MAX_STEP == 100
WHEEL_IN_MAX_STEP == -100
WHEEL_SENSITIVITY == R(35, 10000)
WHEEL_PINCH_FILTER == 15
PINCH_SENSITIVITY == 10
INERTIA_POWER == 200
ZOOM_STEP == R(3, 10)
ZOOM_MIN == R(1, 10)
ZOOM_MAX == I(5)
HARD_MIN == R(1, 10)
HARD_MAX == I(10)
FIT_MIN == R(1, 10)
FIT_MAX == R(15, 10)
padding == 50
FALLBACK_W == 200
FALLBACK_H == 150

INITIAL_ITEMS ==
  << [id |-> "1", x |-> I(0), y |-> I(0), width |-> 200, height |-> 150,
      color |-> "#ff5555", label |-> "Red Rect"],
     [id |-> "2", x |-> I(300), y |-> I(100), width |-> 150, height |-> 150,
      color |-> "#55ff55", label |-> "Green Rect"] >>

Keys == {"x", "y", "scale"}

\* Math.exp, to one decimal, on the arguments the wheel deltas of the model
\* produce: -dy * 0.0035 for dy of 100, 20 and 15 either way, and for the
\* deltas beyond the cap (150, -120) as they are
MathExp(t) ==
  CASE t = R(7, 20)    -> R(14, 10)
    [] t = R(-7, 20)   -> R(7, 10)
    [] t = R(7, 100)   -> R(11, 10)
    [] t = R(-7, 100)  -> R(9, 10)
    [] t = R(21, 400)  -> R(11, 10)
    [] t = R(-21, 400) -> R(9, 10)
    [] t = R(21, 50)   -> R(15, 10)
    [] t = R(-21, 40)  -> R(6, 10)
    [] t = I(0)        -> I(1)

\* ------------------------------------------------------------------------
\* State
\* ------------------------------------------------------------------------
VARIABLES
  val,        \* x.get(), y.get(), scale.get(): the current spring values
  goal,       \* the value each spring is animating to
  left,       \* frames left of each spring's animation, 0 = at rest
  items,      \* React state items
  container,  \* containerRef.current and its getBoundingClientRect()
  pan,        \* gesture state of the canvas drag (active, memo)
  idrag,      \* gesture state of each DraggableItem's drag (active, memo)
  threw,      \* a handler raised a TypeError
  events,     \* number of input events so far
  zooms,      \* number of starts of the scale spring so far
  last,       \* the last step taken: handler, inputs, props given to api.start
  cmd         \* the last handler run (last, but for the frames since)

vars == <<val, goal, left, items, container, pan, idrag, threw, events, zooms,
          last, cmd>>

\* memo of a gesture before any handler returned one
Unset == <<>>

NoStart == [start |-> FALSE]
Start(to, immediate) == [start |-> TRUE, to |-> to, immediate |-> immediate]

\* ------------------------------------------------------------------------
\* calculateZoom (App.tsx 59-77)
\* ------------------------------------------------------------------------
\* calculateZoom without its hard limits
calculateZoomNoClamp(currentScale, deltaScale, currentX, currentY, originX, originY) ==
  LET newScale == RAdd(currentScale, deltaScale)
      factor == RDiv(newScale, currentScale)
      newX == RSub(originX, RMul(factor, RSub(originX, currentX)))
      newY == RSub(originY, RMul(factor, RSub(originY, currentY)))
  IN  [scale |-> newScale, x |-> newX, y |-> newY]

\* calculateZoom taking its factor from the scale before the clamp
calculateZoomEarlyFactor(currentScale, deltaScale, currentX, currentY, originX, originY) ==
  LET rawScale == RAdd(currentScale, deltaScale)
      newScale == RMax(HARD_MIN, RMin(HARD_MAX, rawScale))
      factor == RDiv(rawScale, currentScale)
      newX == RSub(originX, RMul(factor, RSub(originX, currentX)))
      newY == RSub(originY, RMul(factor, RSub(originY, currentY)))
  IN  [scale |-> newScale, x |-> newX, y |-> newY]

calculateZoom(currentScale, deltaScale, currentX, currentY, originX, originY) ==
  LET newScale == RMax(HARD_MIN, RMin(HARD_MAX, RAdd(currentScale, deltaScale)))
      factor == RDiv(newScale, currentScale)
      newX == RSub(originX, RMul(factor, RSub(originX, currentX)))
      newY == RSub(originY, RMul(factor, RSub(originY, currentY)))
  IN  [scale |-> newScale, x |-> newX, y |-> newY]

\* ------------------------------------------------------------------------
\* The spring controller: api.start(props) and the frame loop
\* ------------------------------------------------------------------------
\* api.start queueing behind a running animation instead of replacing it
ApiStartQueued(props) ==
  /\ val' = [k \in Keys |->
       IF k \in DOMAIN props.to /\ props.immediate /\ left[k] = 0
       THEN props.to[k] ELSE val[k]]
  /\ goal' = [k \in Keys |->
       IF k \in DOMAIN props.to /\ left[k] = 0 THEN props.to[k] ELSE goal[k]]
  /\ left' = [k \in Keys |->
       IF k \in DOMAIN props.to /\ left[k] = 0
       THEN IF props.immediate \/ props.to[k] = val[k] THEN 0 ELSE AnimTicks
       ELSE left[k]]

\* api.start: each spring named in props.to gets the new goal (at once when
\* immediate); a spring props.to does not name is left as it is.
ApiStart(props) ==
  /\ val' = [k \in Keys |->
       IF k \in DOMAIN props.to /\ props.immediate THEN props.to[k] ELSE val[k]]
  /\ goal' = [k \in Keys |->
       IF k \in DOMAIN props.to THEN props.to[k] ELSE goal[k]]
  /\ left' = [k \in Keys |->
       IF k \in DOMAIN props.to
       THEN IF props.immediate \/ props.to[k] = val[k] THEN 0 ELSE AnimTicks
       ELSE left[k]]

\* what a handler does with the springs: a start, or nothing
Apply(props) ==
  IF props.start
  THEN /\ ApiStart(props)
       /\ IF "scale" \in DOMAIN props.to
          THEN zooms < MaxZooms /\ zooms' = zooms + 1
          ELSE zooms' = zooms
  ELSE UNCHANGED <<val, goal, left, zooms>>

\* one frame: every running spring advances by an equal share of what is
\* left, and comes to rest on its goal with its last frame
\* a frame in which the scale spring settles ahead of x and y
AdvanceScaleFirst(k) ==
  IF left[k] = 0 THEN val[k]
  ELSE IF left[k] = 1 \/ k = "scale" THEN goal[k]
  ELSE RAdd(val[k], RDiv(RSub(goal[k], val[k]), I(left[k])))

\* a frame loop whose last frame does not put the spring on its goal
AdvanceStopShort(k) ==
  IF left[k] = 0 THEN val[k]
  ELSE RAdd(val[k], RDiv(RSub(goal[k], val[k]), I(left[k] + 1)))

Advance(k) ==
  IF left[k] = 0 THEN val[k]
  ELSE IF left[k] = 1 THEN goal[k]
  ELSE RAdd(val[k], RDiv(RSub(goal[k], val[k]), I(left[k])))

Tick ==
  /\ \E k \in Keys : left[k] > 0
  /\ val' = [k \in Keys |-> Advance(k)]
  /\ left' = [k \in Keys |-> IF left[k] = 0 THEN 0 ELSE left[k] - 1]
  /\ last' = [op |-> "tick"]
  /\ cmd' = cmd
  /\ UNCHANGED <<goal, items, container, pan, idrag, threw, events, zooms>>

\* ------------------------------------------------------------------------
\* Inputs of the model
\* ------------------------------------------------------------------------
\* getBoundingClientRect() of the container: width, height
Viewports == {<<1000, 800>>, <<400, 300>>, <<140, 120>>, <<0, 0>>}
\* cumulative movement [mx, my] of a drag
Movements == {<<0, 0>>, <<30, -20>>}
\* velocity and direction of a drag at release
Releases ==
  { [v |-> <<I(0), I(0)>>, dir |-> <<0, 0>>],
    [v |-> <<R(1, 2), R(1, 4)>>, dir |-> <<1, -1>>] }
\* wheel events: delta [dx, dy], ctrlKey; the cursor is at WheelAt
WheelInputs ==
  { [d |-> <<10, 5>>,   ctrlKey |-> FALSE],
    [d |-> <<10, 0>>,   ctrlKey |-> FALSE],
    [d |-> <<0, 0>>,    ctrlKey |-> FALSE],
    [d |-> <<10, 5>>,   ctrlKey |-> TRUE],
    [d |-> <<0, 150>>,  ctrlKey |-> TRUE],
    [d |-> <<0, -120>>, ctrlKey |-> TRUE] }
WheelAt == <<I(100), I(50)>>
\* pinch events: delta [ds], event.type and, for a wheel event, its deltaY;
\* the origin is at PinchAt
PinchInputs ==
  { [ds |-> R(-9, 100), type |-> "touchmove", deltaY |-> 0],
    [ds |-> R(2, 5),    type |-> "touchmove", deltaY |-> 0],
    [ds |-> I(2),       type |-> "wheel",     deltaY |-> -5],
    [ds |-> R(2, 5),    type |-> "wheel",     deltaY |-> 20] }
PinchAt == <<I(200), I(100)>>

\* ------------------------------------------------------------------------
\* performCenterZoom (App.tsx 206-237)
\* ------------------------------------------------------------------------
\* performCenterZoom zooming out by current * (1 - STEP)
performCenterZoomSubtractive(direction, c, v) ==
  IF ~c.present THEN NoStart
  ELSE
    LET centerX == R(c.width, 2)
        centerY == R(c.height, 2)
        currentScale == v.scale
        raw == IF direction = "in"
               THEN RMul(currentScale, RAdd(I(1), ZOOM_STEP))
               ELSE RMul(currentScale, RSub(I(1), ZOOM_STEP))
        targetScale == RMin(RMax(raw, ZOOM_MIN), ZOOM_MAX)
        deltaScale == RSub(targetScale, currentScale)
    IN  Start(calculateZoom(currentScale, deltaScale, v.x, v.y, centerX, centerY),
              FALSE)

\* performCenterZoom without the clamp to the range of the buttons
performCenterZoomNoClamp(direction, c, v) ==
  IF ~c.present THEN NoStart
  ELSE
    LET centerX == R(c.width, 2)
        centerY == R(c.height, 2)
        currentScale == v.scale
        targetScale == IF direction = "in"
                       THEN RMul(currentScale, RAdd(I(1), ZOOM_STEP))
                       ELSE RDiv(currentScale, RAdd(I(1), ZOOM_STEP))
        deltaScale == RSub(targetScale, currentScale)
    IN  Start(calculateZoom(currentScale, deltaScale, v.x, v.y, centerX, centerY),
              FALSE)

performCenterZoom(direction, c, v) ==
  IF ~c.present THEN NoStart
  ELSE
    LET centerX == R(c.width, 2)
        centerY == R(c.height, 2)
        currentScale == v.scale
        raw == IF direction = "in"
               THEN RMul(currentScale, RAdd(I(1), ZOOM_STEP))
               ELSE RDiv(currentScale, RAdd(I(1), ZOOM_STEP))
        targetScale == RMin(RMax(raw, ZOOM_MIN), ZOOM_MAX)
        deltaScale == RSub(targetScale, currentScale)
    IN  Start(calculateZoom(currentScale, deltaScale, v.x, v.y, centerX, centerY),
              FALSE)

\* ------------------------------------------------------------------------
\* handleSmartCenter (App.tsx 244-307)
\* ------------------------------------------------------------------------
\* Math.min and Math.max folded over the first n of a list of numbers
RECURSIVE FoldMin(_, _)
FoldMin(q, n) ==
  IF n = 1 THEN q[1] ELSE RMin(FoldMin(q, n - 1), q[n])
RECURSIVE FoldMax(_, _)
FoldMax(q, n) ==
  IF n = 1 THEN q[1] ELSE RMax(FoldMax(q, n - 1), q[n])

\* item.width || 200, item.height || 150, halved
HalfW(item) == R(IF item.width = 0 THEN FALLBACK_W ELSE item.width, 2)
HalfH(item) == R(IF item.height = 0 THEN FALLBACK_H ELSE item.height, 2)
ItemMinX(item) == RSub(item.x, HalfW(item))
ItemMinY(item) == RSub(item.y, HalfH(item))
ItemMaxX(item) == RAdd(item.x, HalfW(item))
ItemMaxY(item) == RAdd(item.y, HalfH(item))

\* handleSmartCenter without the check of containerRef.current
handleSmartCenterNoRefCheck(c, its) ==
  IF Len(its) = 0 THEN NoStart
  ELSE
    LET viewportW == I(c.width)
        viewportH == I(c.height)
        availableW == RSub(viewportW, I(padding * 2))
        availableH == RSub(viewportH, I(padding * 2))
        minX == FoldMin([i \in 1..Len(its) |-> ItemMinX(its[i])], Len(its))
        minY == FoldMin([i \in 1..Len(its) |-> ItemMinY(its[i])], Len(its))
        maxX == FoldMax([i \in 1..Len(its) |-> ItemMaxX(its[i])], Len(its))
        maxY == FoldMax([i \in 1..Len(its) |-> ItemMaxY(its[i])], Len(its))
        boxW == RSub(maxX, minX)
        boxH == RSub(maxY, minY)
    IN  IF RIsZero(boxW) \/ RIsZero(boxH) THEN NoStart
        ELSE
          LET scaleX == RDiv(availableW, boxW)
              scaleY == RDiv(availableH, boxH)
              targetScale == RMin(RMax(RMin(scaleX, scaleY), FIT_MIN), FIT_MAX)
              centerX == RAdd(minX, RDiv(boxW, I(2)))
              centerY == RAdd(minY, RDiv(boxH, I(2)))
              targetX == RSub(RDiv(viewportW, I(2)), RMul(centerX, targetScale))
              targetY == RSub(RDiv(viewportH, I(2)), RMul(centerY, targetScale))
          IN  Start([x |-> targetX, y |-> targetY, scale |-> targetScale], FALSE)

\* handleSmartCenter fitting the axis with more room
handleSmartCenterWiderAxis(c, its) ==
  IF ~c.present \/ Len(its) = 0 THEN NoStart
  ELSE
    LET viewportW == I(c.width)
        viewportH == I(c.height)
        availableW == RSub(viewportW, I(padding * 2))
        availableH == RSub(viewportH, I(padding * 2))
        minX == FoldMin([i \in 1..Len(its) |-> ItemMinX(its[i])], Len(its))
        minY == FoldMin([i \in 1..Len(its) |-> ItemMinY(its[i])], Len(its))
        maxX == FoldMax([i \in 1..Len(its) |-> ItemMaxX(its[i])], Len(its))
        maxY == FoldMax([i \in 1..Len(its) |-> ItemMaxY(its[i])], Len(its))
        boxW == RSub(maxX, minX)
        boxH == RSub(maxY, minY)
    IN  IF RIsZero(boxW) \/ RIsZero(boxH) THEN NoStart
        ELSE
          LET scaleX == RDiv(availableW, boxW)
              scaleY == RDiv(availableH, boxH)
              targetScale == RMin(RMax(RMax(scaleX, scaleY), FIT_MIN), FIT_MAX)
              centerX == RAdd(minX, RDiv(boxW, I(2)))
              centerY == RAdd(minY, RDiv(boxH, I(2)))
              targetX == RSub(RDiv(viewportW, I(2)), RMul(centerX, targetScale))
              targetY == RSub(RDiv(viewportH, I(2)), RMul(centerY, targetScale))
          IN  Start([x |-> targetX, y |-> targetY, scale |-> targetScale], FALSE)

\* handleSmartCenter without the padding
handleSmartCenterNoPadding(c, its) ==
  IF ~c.present \/ Len(its) = 0 THEN NoStart
  ELSE
    LET viewportW == I(c.width)
        viewportH == I(c.height)
        availableW == viewportW
        availableH == viewportH
        minX == FoldMin([i \in 1..Len(its) |-> ItemMinX(its[i])], Len(its))
        minY == FoldMin([i \in 1..Len(its) |-> ItemMinY(its[i])], Len(its))
        maxX == FoldMax([i \in 1..Len(its) |-> ItemMaxX(its[i])], Len(its))
        maxY == FoldMax([i \in 1..Len(its) |-> ItemMaxY(its[i])], Len(its))
        boxW == RSub(maxX, minX)
        boxH == RSub(maxY, minY)
    IN  IF RIsZero(boxW) \/ RIsZero(boxH) THEN NoStart
        ELSE
          LET scaleX == RDiv(availableW, boxW)
              scaleY == RDiv(availableH, boxH)
              targetScale == RMin(RMax(RMin(scaleX, scaleY), FIT_MIN), FIT_MAX)
              centerX == RAdd(minX, RDiv(boxW, I(2)))
              centerY == RAdd(minY, RDiv(boxH, I(2)))
              targetX == RSub(RDiv(viewportW, I(2)), RMul(centerX, targetScale))
              targetY == RSub(RDiv(viewportH, I(2)), RMul(centerY, targetScale))
          IN  Start([x |-> targetX, y |-> targetY, scale |-> targetScale], FALSE)

\* handleSmartCenter moving the camera by the offset instead of to it
handleSmartCenterRelative(c, its) ==
  IF ~c.present \/ Len(its) = 0 THEN NoStart
  ELSE
    LET viewportW == I(c.width)
        viewportH == I(c.height)
        availableW == RSub(viewportW, I(padding * 2))
        availableH == RSub(viewportH, I(padding * 2))
        minX == FoldMin([i \in 1..Len(its) |-> ItemMinX(its[i])], Len(its))
        minY == FoldMin([i \in 1..Len(its) |-> ItemMinY(its[i])], Len(its))
        maxX == FoldMax([i \in 1..Len(its) |-> ItemMaxX(its[i])], Len(its))
        maxY == FoldMax([i \in 1..Len(its) |-> ItemMaxY(its[i])], Len(its))
        boxW == RSub(maxX, minX)
        boxH == RSub(maxY, minY)
    IN  IF RIsZero(boxW) \/ RIsZero(boxH) THEN NoStart
        ELSE
          LET scaleX == RDiv(availableW, boxW)
              scaleY == RDiv(availableH, boxH)
              targetScale == RMin(RMax(RMin(scaleX, scaleY), FIT_MIN), FIT_MAX)
              centerX == RAdd(minX, RDiv(boxW, I(2)))
              centerY == RAdd(minY, RDiv(boxH, I(2)))
              targetX == RSub(RDiv(viewportW, I(2)), RMul(centerX, targetScale))
              targetY == RSub(RDiv(viewportH, I(2)), RMul(centerY, targetScale))
          IN  Start([x |-> RAdd(val.x, targetX), y |-> RAdd(val.y, targetY),
                     scale |-> targetScale], FALSE)

\* handleSmartCenter
handleSmartCenter(c, its) ==
  IF ~c.present \/ Len(its) = 0 THEN NoStart
  ELSE
    LET viewportW == I(c.width)
        viewportH == I(c.height)
        availableW == RSub(viewportW, I(padding * 2))
        availableH == RSub(viewportH, I(padding * 2))
        minX == FoldMin([i \in 1..Len(its) |-> ItemMinX(its[i])], Len(its))
        minY == FoldMin([i \in 1..Len(its) |-> ItemMinY(its[i])], Len(its))
        maxX == FoldMax([i \in 1..Len(its) |-> ItemMaxX(its[i])], Len(its))
        maxY == FoldMax([i \in 1..Len(its) |-> ItemMaxY(its[i])], Len(its))
        boxW == RSub(maxX, minX)
        boxH == RSub(maxY, minY)
    IN  IF RIsZero(boxW) \/ RIsZero(boxH) THEN NoStart
        ELSE
          LET scaleX == RDiv(availableW, boxW)
              scaleY == RDiv(availableH, boxH)
              targetScale == RMin(RMax(RMin(scaleX, scaleY), FIT_MIN), FIT_MAX)
              centerX == RAdd(minX, RDiv(boxW, I(2)))
              centerY == RAdd(minY, RDiv(boxH, I(2)))
              targetX == RSub(RDiv(viewportW, I(2)), RMul(centerX, targetScale))
              targetY == RSub(RDiv(viewportH, I(2)), RMul(centerY, targetScale))
          IN  Start([x |-> targetX, y |-> targetY, scale |-> targetScale], FALSE)

\* ------------------------------------------------------------------------
\* Canvas gestures (App.tsx 328-461)
\* ------------------------------------------------------------------------
\* onDrag without the check of the event's target
onDragNoItemCheck(m, first, memo, down, rel, inItem, v) ==
  LET memo1 == IF first THEN <<v.x, v.y>> ELSE memo
  IN  IF down
      THEN IF memo1 = Unset
           THEN [props |-> NoStart, memo |-> Unset, threw |-> TRUE]
           ELSE [props |-> Start([x |-> RAdd(memo1[1], I(m[1])),
                                  y |-> RAdd(memo1[2], I(m[2]))], TRUE),
                 memo |-> memo1, threw |-> FALSE]
      ELSE [props |-> Start(
              [x |-> RAdd(v.x, RMul(RMul(rel.v[1], I(rel.dir[1])), I(INERTIA_POWER))),
               y |-> RAdd(v.y, RMul(RMul(rel.v[2], I(rel.dir[2])), I(INERTIA_POWER)))],
              FALSE),
            memo |-> memo1, threw |-> FALSE]

\* onDrag tracking from the current position instead of the memo
onDragFromCurrent(m, first, memo, down, rel, inItem, v) ==
  IF inItem THEN [props |-> NoStart, memo |-> memo, threw |-> FALSE]
  ELSE
    LET memo1 == IF first THEN <<v.x, v.y>> ELSE memo
    IN  IF down
        THEN IF memo1 = Unset
             THEN [props |-> NoStart, memo |-> Unset, threw |-> TRUE]
             ELSE [props |-> Start([x |-> RAdd(v.x, I(m[1])),
                                    y |-> RAdd(v.y, I(m[2]))], TRUE),
                   memo |-> memo1, threw |-> FALSE]
        ELSE
          LET throwX == RMul(RMul(rel.v[1], I(rel.dir[1])), I(INERTIA_POWER))
              throwY == RMul(RMul(rel.v[2], I(rel.dir[2])), I(INERTIA_POWER))
              endX == RAdd(v.x, throwX)
              endY == RAdd(v.y, throwY)
          IN  [props |-> Start([x |-> endX, y |-> endY], FALSE),
               memo |-> memo1, threw |-> FALSE]

\* onDrag throwing by the velocity alone, without the direction
onDragNoDirection(m, first, memo, down, rel, inItem, v) ==
  IF inItem THEN [props |-> NoStart, memo |-> memo, threw |-> FALSE]
  ELSE
    LET memo1 == IF first THEN <<v.x, v.y>> ELSE memo
    IN  IF down
        THEN IF memo1 = Unset
             THEN [props |-> NoStart, memo |-> Unset, threw |-> TRUE]
             ELSE [props |-> Start([x |-> RAdd(memo1[1], I(m[1])),
                                    y |-> RAdd(memo1[2], I(m[2]))], TRUE),
                   memo |-> memo1, threw |-> FALSE]
        ELSE
          LET throwX == RMul(rel.v[1], I(INERTIA_POWER))
              throwY == RMul(rel.v[2], I(INERTIA_POWER))
              endX == RAdd(v.x, throwX)
              endY == RAdd(v.y, throwY)
          IN  [props |-> Start([x |-> endX, y |-> endY], FALSE),
               memo |-> memo1, threw |-> FALSE]

\* onDrag: what the handler returns (memo), the props it gives api.start and
\* whether it raised.  inItem: event.target.closest('[data-draggable="true"]')
onDrag(m, first, memo, down, rel, inItem, v) ==
  IF inItem THEN [props |-> NoStart, memo |-> memo, threw |-> FALSE]
  ELSE
    LET memo1 == IF first THEN <<v.x, v.y>> ELSE memo
    IN  IF down
        THEN IF memo1 = Unset
             THEN \* memo[0] of undefined
                  [props |-> NoStart, memo |-> Unset, threw |-> TRUE]
             ELSE [props |-> Start([x |-> RAdd(memo1[1], I(m[1])),
                                    y |-> RAdd(memo1[2], I(m[2]))], TRUE),
                   memo |-> memo1, threw |-> FALSE]
        ELSE
          LET throwX == RMul(RMul(rel.v[1], I(rel.dir[1])), I(INERTIA_POWER))
              throwY == RMul(RMul(rel.v[2], I(rel.dir[2])), I(INERTIA_POWER))
              endX == RAdd(v.x, throwX)
              endY == RAdd(v.y, throwY)
          IN  [props |-> Start([x |-> endX, y |-> endY], FALSE),
               memo |-> memo1, threw |-> FALSE]

\* onWheel without the cap of the delta of one event
onWheelUncapped(d, ctrlKey, at, v) ==
  IF d[2] = 0 THEN NoStart
  ELSE IF ctrlKey
  THEN IF Abs(d[2]) < WHEEL_PINCH_FILTER THEN NoStart
       ELSE
         LET currentScale == v.scale
             effectiveDy == d[2]
             factor == MathExp(RMul(I(-effectiveDy), WHEEL_SENSITIVITY))
             impliedDeltaScale == RMul(currentScale, RSub(factor, I(1)))
         IN  Start(calculateZoom(currentScale, impliedDeltaScale, v.x, v.y,
                                 at[1], at[2]), TRUE)
  ELSE Start([x |-> RSub(v.x, I(d[1])), y |-> RSub(v.y, I(d[2]))], TRUE)

\* onWheel
onWheel(d, ctrlKey, at, v) ==
  IF d[2] = 0 THEN NoStart
  ELSE IF ctrlKey
  THEN IF Abs(d[2]) < WHEEL_PINCH_FILTER THEN NoStart
       ELSE
         LET currentScale == v.scale
             effectiveDy == IF d[2] > 0
                            THEN IF d[2] < WHEEL_OUT_MAX_STEP THEN d[2]
                                 ELSE WHEEL_OUT_MAX_STEP
                            ELSE IF d[2] > WHEEL_IN_MAX_STEP THEN d[2]
                                 ELSE WHEEL_IN_MAX_STEP
             factor == MathExp(RMul(I(-effectiveDy), WHEEL_SENSITIVITY))
             impliedDeltaScale == RMul(currentScale, RSub(factor, I(1)))
         IN  Start(calculateZoom(currentScale, impliedDeltaScale, v.x, v.y,
                                 at[1], at[2]), TRUE)
  ELSE Start([x |-> RSub(v.x, I(d[1])), y |-> RSub(v.y, I(d[2]))], TRUE)

\* onPinch without the filter of wheel events
onPinchNoWheelFilter(origin, e, v) ==
  LET currentScale == v.scale
  IN  IF RIsZero(currentScale) THEN NoStart
      ELSE
        LET effectiveDeltaScale == RMul(e.ds, I(PINCH_SENSITIVITY))
        IN  Start(calculateZoom(currentScale, effectiveDeltaScale, v.x, v.y,
                                origin[1], origin[2]), TRUE)

\* onPinch
onPinch(origin, e, v) ==
  IF e.type = "wheel" /\ Abs(e.deltaY) >= WHEEL_PINCH_FILTER THEN NoStart
  ELSE
    LET currentScale == v.scale
    IN  IF RIsZero(currentScale) THEN NoStart
        ELSE
          LET effectiveDeltaScale == RMul(e.ds, I(PINCH_SENSITIVITY))
          IN  Start(calculateZoom(currentScale, effectiveDeltaScale, v.x, v.y,
                                  origin[1], origin[2]), TRUE)

\* ------------------------------------------------------------------------
\* Items (App.tsx 113-184)
\* ------------------------------------------------------------------------
\* DraggableItem's onDrag without the division by the scale
itemOnDragNoCompensation(item, m, first, memo, v) ==
  LET initial == IF first \/ memo = Unset THEN <<item.x, item.y>> ELSE memo
      memo1 == IF first THEN initial ELSE memo
      newX == RAdd(initial[1], I(m[1]))
      newY == RAdd(initial[2], I(m[2]))
  IN  [id |-> item.id, newPos |-> [x |-> newX, y |-> newY], memo |-> memo1]

\* DraggableItem's onDrag: the position it hands to onUpdate, and its memo
itemOnDrag(item, m, first, memo, v) ==
  LET initial == IF first \/ memo = Unset THEN <<item.x, item.y>> ELSE memo
      memo1 == IF first THEN initial ELSE memo
      currentScale == v.scale
      newX == RAdd(initial[1], RDiv(I(m[1]), currentScale))
      newY == RAdd(initial[2], RDiv(I(m[2]), currentScale))
  IN  [id |-> item.id, newPos |-> [x |-> newX, y |-> newY], memo |-> memo1]

\* handleUpdateItem without the comparison of ids
handleUpdateItemAll(its, id, newPos) ==
  [i \in 1..Len(its) |-> [its[i] EXCEPT !.x = newPos.x, !.y = newPos.y]]

\* setItems(prev => prev.map(item => item.id === id ? {...item, ...newPos} : item))
handleUpdateItem(its, id, newPos) ==
  [i \in 1..Len(its) |->
     IF its[i].id = id
     THEN [its[i] EXCEPT !.x = newPos.x, !.y = newPos.y]
     ELSE its[i]]

\* ------------------------------------------------------------------------
\* Initial state (App.tsx 176-202) and the steps
\* ------------------------------------------------------------------------
Init ==
  /\ val = [x |-> I(0), y |-> I(0), scale |-> I(1)]
  /\ goal = [x |-> I(0), y |-> I(0), scale |-> I(1)]
  /\ left = [k \in Keys |-> 0]
  /\ items = INITIAL_ITEMS
  /\ container = [present |-> TRUE, width |-> 1000, height |-> 800]
  /\ pan = [active |-> FALSE, memo |-> Unset]
  /\ idrag = [i \in 1..Len(INITIAL_ITEMS) |-> [active |-> FALSE, memo |-> Unset]]
  /\ threw = FALSE
  /\ events = 0
  /\ zooms = 0
  /\ last = [op |-> "init"]
  /\ cmd = [op |-> "init"]

Fine(q) == q[2] <= MaxDen

Event ==
  /\ events < MaxEvents
  /\ \A k \in Keys : Fine(val[k]) /\ Fine(goal[k])
  /\ \A i \in 1..Len(items) : Fine(items[i].x) /\ Fine(items[i].y)
  /\ events' = events + 1

NoRelease == [v |-> <<I(0), I(0)>>, dir |-> <<0, 0>>]

\* where a pointer event of the drag can have its target: on the bare
\* canvas, inside a DraggableItem, or inside the UI overlay.  The overlay's
\* stopPropagation runs in React's handlers, after the listener the gesture
\* library has put on the container itself, so the event reaches onDrag.
Targets == {"canvas", "item", "overlay"}
\* target.closest('[data-draggable="true"]'): only items carry the marker
closestDraggable(target) == target = "item"

\* one event of the canvas drag gesture, handled by onDrag
CanvasDrag(m, first, down, rel, target) ==
  LET inItem == closestDraggable(target)
      r == onDrag(m, first, IF first THEN Unset ELSE pan.memo, down, rel,
                  inItem, val)
  IN  /\ Event
      /\ container.present
      /\ Apply(r.props)
      /\ pan' = [active |-> down, memo |-> IF down THEN r.memo ELSE Unset]
      /\ threw' = (threw \/ r.threw)
      /\ last' = [op |-> "onDrag", m |-> m, first |-> first, down |-> down,
                  rel |-> rel, target |-> target, inItem |-> inItem,
                  props |-> r.props,
                  threw |-> r.threw]
      /\ cmd' = last'
      /\ UNCHANGED <<items, container, idrag>>

PanStart ==
  /\ ~pan.active
  /\ \E target \in Targets : CanvasDrag(<<0, 0>>, TRUE, TRUE, NoRelease, target)

PanMove ==
  /\ pan.active
  /\ \E m \in Movements, target \in Targets :
       CanvasDrag(m, FALSE, TRUE, NoRelease, target)

PanEnd ==
  /\ pan.active
  /\ \E rel \in Releases, target \in Targets :
       CanvasDrag(<<30, -20>>, FALSE, FALSE, rel, target)

Wheel ==
  \E e \in WheelInputs :
    LET props == onWheel(e.d, e.ctrlKey, WheelAt, val)
    IN  /\ Event
        /\ container.present
        /\ Apply(props)
        /\ last' = [op |-> "onWheel", d |-> e.d, ctrlKey |-> e.ctrlKey,
                    at |-> WheelAt, props |-> props]
        /\ cmd' = last'
        /\ UNCHANGED <<items, container, pan, idrag, threw>>

Pinch ==
  \E e \in PinchInputs :
    LET props == onPinch(PinchAt, e, val)
    IN  /\ Event
        /\ container.present
        /\ Apply(props)
        /\ last' = [op |-> "onPinch", e |-> e, at |-> PinchAt, props |-> props]
        /\ cmd' = last'
        /\ UNCHANGED <<items, container, pan, idrag, threw>>

\* handleZoomIn, handleZoomOut
ZoomButton ==
  \E direction \in {"in", "out"} :
    LET props == performCenterZoom(direction, container, val)
    IN  /\ Event
        /\ container.present
        /\ Apply(props)
        /\ last' = [op |-> "performCenterZoom", direction |-> direction,
                    from |-> val, props |-> props]
        /\ cmd' = last'
        /\ UNCHANGED <<items, container, pan, idrag, threw>>

\* the Scan button, or Alt+1 on the window
SmartCenter ==
  LET props == handleSmartCenter(container, items)
  IN  /\ Event
      /\ Apply(props)
      /\ last' = [op |-> "handleSmartCenter", props |-> props]
      /\ cmd' = last'
      /\ UNCHANGED <<items, container, pan, idrag, threw>>

\* one event of the drag gesture of item i, handled by DraggableItem's onDrag
ItemDrag(i, m, first, down) ==
  LET r == itemOnDrag(items[i], m, first,
                      IF first THEN Unset ELSE idrag[i].memo, val)
  IN  /\ Event
      /\ container.present
      /\ items' = handleUpdateItem(items, r.id, r.newPos)
      /\ idrag' = [idrag EXCEPT ![i] =
                     [active |-> down, memo |-> IF down THEN r.memo ELSE Unset]]
      /\ last' = [op |-> "itemOnDrag", i |-> i, m |-> m, first |-> first,
                  down |-> down, memo |-> r.memo]
      /\ cmd' = last'
      /\ UNCHANGED <<val, goal, left, zooms, container, pan, threw>>

ItemStart ==
  \E i \in 1..Len(items), m \in Movements :
    ~idrag[i].active /\ ItemDrag(i, m, TRUE, TRUE)

ItemMove ==
  \E i \in 1..Len(items), m \in Movements :
    idrag[i].active /\ ItemDrag(i, m, FALSE, TRUE)

ItemEnd ==
  \E i \in 1..Len(items), m \in Movements :
    idrag[i].active /\ ItemDrag(i, m, FALSE, FALSE)

\* the window is resized
Resize ==
  \E wh \in Viewports :
    /\ Event
    /\ container.present
    /\ <<container.width, container.height>> # wh
    /\ container' = [container EXCEPT !.width = wh[1], !.height = wh[2]]
    /\ last' = [op |-> "resize"]
    /\ cmd' = last'
    /\ UNCHANGED <<val, goal, left, zooms, items, pan, idrag, threw>>

\* the component unmounts: React detaches the ref; the keydown listener on the
\* window is removed later, by the effect's cleanup
Unmount ==
  /\ Event
  /\ container.present
  /\ container' = [container EXCEPT !.present = FALSE]
  /\ last' = [op |-> "unmount"]
  /\ cmd' = last'
  /\ UNCHANGED <<val, goal, left, zooms, items, pan, idrag, threw>>

Next ==
  \/ PanStart \/ PanMove \/ PanEnd
  \/ Wheel \/ Pinch \/ ZoomButton \/ SmartCenter
  \/ ItemStart \/ ItemMove \/ ItemEnd
  \/ Resize \/ Unmount
  \/ Tick

Spec == Init /\ [][Next]_vars

\* what tells a frame of the frame loop from every other step: a frame was
\* owed, each running spring has one frame less to go, and the step is
\* recorded as a frame.  A step of Next is a Frame step exactly when it is a
\* Tick step, and Frame is enabled exactly when Tick is.
Frame ==
  /\ \E k \in Keys : left[k] > 0
  /\ left' = [k \in Keys |-> IF left[k] = 0 THEN 0 ELSE left[k] - 1]
  /\ last' = [op |-> "tick"]

\* every frame the frame loop owes is eventually run: weak fairness of
\* Tick, stated on Frame so that its enabling condition does not depend on
\* the spring arithmetic
FairSpec == Spec /\ WF_<<left, last>>(Frame)

\* ------------------------------------------------------------------------
\* handleSmartCenter over the item collections the Item type allows
\* ------------------------------------------------------------------------
Rect(id, x, y, width, height) ==
  [id |-> id, x |-> I(x), y |-> I(y), width |-> width, height |-> height,
   color |-> "#ff5555", label |-> "Rect"]
\* collections of items: the initial one, and ones with an item without
\* width, without height or without either (a single point)
ItemCollections ==
  { INITIAL_ITEMS,
    << Rect("1", 0, 0, 0, 150) >>,
    << Rect("1", 0, 0, 200, 0) >>,
    << Rect("1", 40, 30, 0, 0) >>,
    << Rect("1", 0, 0, 0, 150), Rect("2", 0, 100, 0, 150) >> }

\* App mounted with a collection of items, in a window of some size
FitInit ==
  /\ val = [x |-> I(0), y |-> I(0), scale |-> I(1)]
  /\ goal = [x |-> I(0), y |-> I(0), scale |-> I(1)]
  /\ left = [k \in Keys |-> 0]
  /\ items \in ItemCollections
  /\ \E wh \in Viewports :
       container = [present |-> TRUE, width |-> wh[1], height |-> wh[2]]
  /\ pan = [active |-> FALSE, memo |-> Unset]
  /\ idrag = [i \in 1..Len(items) |-> [active |-> FALSE, memo |-> Unset]]
  /\ threw = FALSE
  /\ events = 0
  /\ zooms = 0
  /\ last = [op |-> "init"]
  /\ cmd = [op |-> "init"]

FitNext ==
  \/ SmartCenter
  \/ ItemStart \/ ItemMove \/ ItemEnd
  \/ Resize
  \/ Tick

FitSpec == FitInit /\ [][FitNext]_vars

\* ------------------------------------------------------------------------
\* Properties
\* ------------------------------------------------------------------------
InFlight == \E k \in Keys : left[k] > 0
Between(a, b, c) == (RLe(a, b) /\ RLe(b, c)) \/ (RLe(c, b) /\ RLe(b, a))
\* the step just taken ran a handler that called api.start
Started(l) ==
  /\ l.op \in {"onDrag", "onWheel", "onPinch", "performCenterZoom",
               "handleSmartCenter"}
  /\ l.props.start
SpringsUnchanged == val' = val /\ goal' = goal /\ left' = left

\* C1: in every reachable state, whatever the events and frames so far, the
\* camera scale (and the scale it is animating to) lies in [0.1, 10]; it is
\* never 0, so newScale / currentScale in calculateZoom is defined.
C1_ScaleInHardRange ==
  /\ RLe(HARD_MIN, val.scale) /\ RLe(val.scale, HARD_MAX)
  /\ RLe(HARD_MIN, goal.scale) /\ RLe(goal.scale, HARD_MAX)
  /\ ~RIsZero(val.scale)

\* a pinch was clamped at the upper hard limit
C1_Witness ==
  /\ last.op = "onPinch" /\ last.props.start
  /\ val.scale = HARD_MAX

\* the world point under the screen point at, for the transform t
WorldX(at, t) == RDiv(RSub(at[1], t.x), t.scale)
WorldY(at, t) == RDiv(RSub(at[2], t.y), t.scale)
\* the anchor a zoom step gave calculateZoom
AnchorOf(l) ==
  IF l.op = "performCenterZoom"
  THEN <<R(container.width, 2), R(container.height, 2)>>
  ELSE l.at
ZoomStep(l) ==
  /\ l.op \in {"onWheel", "onPinch", "performCenterZoom"}
  /\ l.props.start
  /\ "scale" \in DOMAIN l.props.to

\* C2: every call of calculateZoom (from the wheel zoom, the pinch and the
\* zoom buttons) returns a transform under which the world point under the
\* anchor is the one that was under it for the current transform, also when
\* the new scale was clamped.
C2_AnchorInvariance ==
  [][ZoomStep(last') =>
        /\ WorldX(AnchorOf(last'), last'.props.to) = WorldX(AnchorOf(last'), val)
        /\ WorldY(AnchorOf(last'), last'.props.to) = WorldY(AnchorOf(last'), val)
     ]_vars

\* a zoom about the cursor that was clamped and moved the camera
C2_Witness ==
  /\ ZoomStep(last)
  /\ last.op = "onPinch"
  /\ val.scale = HARD_MAX
  /\ val.x # I(0) /\ val.y # I(0)

C4_WheelPansOnAnyDelta ==
  [][(/\ last'.op = "onWheel"
      /\ ~last'.ctrlKey
      /\ (last'.d[1] # 0 \/ last'.d[2] # 0)) =>
        /\ val'.x = RSub(val.x, I(last'.d[1]))
        /\ val'.y = RSub(val.y, I(last'.d[2]))
        /\ val'.scale = val.scale
     ]_vars

\* C5: an event of the canvas drag whose target is inside an item leaves the
\* camera's values, goals and running animations as they were, whether it is
\* the first event, a move or the release.
C5_ItemTargetLeavesCamera ==
  [][(last'.op = "onDrag" /\ last'.inItem) =>
        SpringsUnchanged /\ ~last'.props.start /\ ~last'.threw
     ]_vars

\* the release of a drag on an item, seen by the canvas, during an animation
C5_Witness ==
  /\ last.op = "onDrag" /\ last.inItem /\ ~last.down
  /\ InFlight

Ids(its) == {its[i].id : i \in 1..Len(its)}

\* C6: an event of an item's drag changes nothing but the x and y of that
\* item (the other items, its id, width, height, color and label, and the
\* set of ids stay); no other step changes any item.
C6_ItemDragFrame ==
  [][/\ Len(items') = Len(items)
     /\ Ids(items') = Ids(items)
     /\ Cardinality(Ids(items')) = Len(items')
     /\ IF last'.op = "itemOnDrag"
        THEN \A j \in 1..Len(items) :
               IF j = last'.i
               THEN [items'[j] EXCEPT !.x = items[j].x, !.y = items[j].y]
                      = items[j]
               ELSE items'[j] = items[j]
        ELSE items' = items
     ]_vars

\* an item was moved by its drag, the other is where it started
C6_Witness ==
  /\ last.op = "itemOnDrag"
  /\ items[last.i].x # INITIAL_ITEMS[last.i].x
  /\ \A j \in 1..Len(items) : j # last.i => items[j] = INITIAL_ITEMS[j]

\* the position of item i when its drag started, as the step from the
\* unprimed state sees it
Snapshot(i, first) ==
  IF first THEN <<items[i].x, items[i].y>> ELSE idrag[i].memo

\* C7: after every event of an item's drag the item is at the position it
\* had when the drag started plus the cumulative movement divided by the
\* camera scale at that event: 30 pixels are 30 at scale 1, 300 at scale 0.1
\* and 6 at scale 5, and a movement of 0 puts it back.
C7_ScaleCompensation ==
  [][last'.op = "itemOnDrag" =>
        LET i == last'.i
            snap == Snapshot(i, last'.first)
            m == last'.m
        IN  /\ items'[i].x = RAdd(snap[1], RDiv(I(m[1]), val'.scale))
            /\ items'[i].y = RAdd(snap[2], RDiv(I(m[2]), val'.scale))
            /\ m = <<0, 0>> => items'[i].x = snap[1] /\ items'[i].y = snap[2]
            /\ (m[1] = 30 /\ val'.scale = I(1)) =>
                 items'[i].x = RAdd(snap[1], I(30))
            /\ (m[1] = 30 /\ val'.scale = R(1, 10)) =>
                 items'[i].x = RAdd(snap[1], I(300))
            /\ (m[1] = 30 /\ val'.scale = I(5)) =>
                 items'[i].x = RAdd(snap[1], I(6))
     ]_vars

\* an item dragged by 30 pixels at scale 0.1 is 300 further
C7_Witness ==
  /\ last.op = "itemOnDrag" /\ last.m = <<30, -20>>
  /\ val.scale = R(1, 10)
  /\ items[last.i].x = RAdd(INITIAL_ITEMS[last.i].x, I(300))

\* the bounding box of the items, from each item's centre and half extent
BoxMinX == FoldMin([i \in 1..Len(items) |-> ItemMinX(items[i])], Len(items))
BoxMaxX == FoldMax([i \in 1..Len(items) |-> ItemMaxX(items[i])], Len(items))
BoxMinY == FoldMin([i \in 1..Len(items) |-> ItemMinY(items[i])], Len(items))
BoxMaxY == FoldMax([i \in 1..Len(items) |-> ItemMaxY(items[i])], Len(items))
BoxW == RSub(BoxMaxX, BoxMinX)
BoxH == RSub(BoxMaxY, BoxMinY)
\* min(availableW / boxW, availableH / boxH), before the clamp
Candidate ==
  RMin(RDiv(I(container.width - 2 * padding), BoxW),
       RDiv(I(container.height - 2 * padding), BoxH))
FitStep(l) == l.op = "handleSmartCenter"

\* C8 as claimed: fit-to-content neither moves the camera nor starts or
\* replaces an animation when there is no item, no container, or a container
\* measured with width 0 or height 0.
C8_NoopAlsoOnZeroViewport ==
  [][(/\ FitStep(last')
      /\ \/ Len(items) = 0
         \/ ~container.present
         \/ container.width = 0
         \/ container.height = 0) =>
        SpringsUnchanged /\ ~last'.props.start
     ]_vars

\* C8 as amended: fit-to-content is a no-op when there is no item or no
\* container; with a container measured with width 0 or height 0 (and items
\* with a bounding box) it is none: it starts an animation to scale 0.1.
C8_NoopOnMissingContainer ==
  [][(/\ (FitStep(last') /\ (Len(items) = 0 \/ ~container.present)) =>
           SpringsUnchanged /\ ~last'.props.start)
     /\
     ((/\ FitStep(last')
       /\ Len(items) > 0 /\ container.present
       /\ container.width = 0 \/ container.height = 0
       /\ ~RIsZero(BoxW) /\ ~RIsZero(BoxH)) =>
           /\ last'.props.start
           /\ goal'.scale = FIT_MIN)
     ]_vars

\* fit-to-content ran without a container while an animation was in flight
C8_Witness ==
  /\ FitStep(last) /\ ~last.props.start
  /\ ~container.present
  /\ InFlight

\* C9: when fit-to-content starts an animation, its scale is
\* min(availableW / boxW, availableH / boxH) clamped to [0.1, 1.5], with
\* available = viewport - 100 per axis, and its offset puts the centre of
\* the bounding box on the centre of the viewport; one item at (0, 0) of
\* 200 x 150 in a viewport of 1000 x 800 gives scale 1.5, offset (500, 400).
C9_FitTarget ==
  /\ (FitStep(last) /\ last.props.start) =>
       LET to == last.props.to
           centerX == RDiv(RAdd(BoxMinX, BoxMaxX), I(2))
           centerY == RDiv(RAdd(BoxMinY, BoxMaxY), I(2))
       IN  /\ DOMAIN to = Keys
           /\ ~last.props.immediate
           /\ to.scale = RMin(RMax(Candidate, R(1, 10)), R(3, 2))
           /\ RAdd(RMul(centerX, to.scale), to.x) = R(container.width, 2)
           /\ RAdd(RMul(centerY, to.scale), to.y) = R(container.height, 2)
           /\ goal = to
  /\ handleSmartCenter(
       [present |-> TRUE, width |-> 1000, height |-> 800],
       << [id |-> "1", x |-> I(0), y |-> I(0), width |-> 200, height |-> 150,
           color |-> "#ff5555", label |-> "Red Rect"] >>)
       = Start([x |-> I(500), y |-> I(400), scale |-> R(3, 2)], FALSE)

\* fit-to-content started with a scale the clamp did not touch
C9_Witness ==
  /\ FitStep(last) /\ last.props.start
  /\ last.props.to.scale = Candidate
  /\ RLt(R(1, 10), Candidate) /\ RLt(Candidate, R(3, 2))

\* the animation that the last handler, fit-to-content, started has settled
FitSettled ==
  /\ FitStep(cmd) /\ cmd.props.start
  /\ ~InFlight
\* screen = world * scale + offset
ScreenX(wx) == RAdd(RMul(wx, val.scale), val.x)
ScreenY(wy) == RAdd(RMul(wy, val.scale), val.y)
\* every item's rectangle is inside the viewport inset by the padding
ItemsFramed ==
  \A i \in 1..Len(items) :
    /\ RLe(I(padding), ScreenX(ItemMinX(items[i])))
    /\ RLe(ScreenX(ItemMaxX(items[i])), I(container.width - padding))
    /\ RLe(I(padding), ScreenY(ItemMinY(items[i])))
    /\ RLe(ScreenY(ItemMaxY(items[i])), I(container.height - padding))

\* C10 as claimed: once a fit-to-content animation has settled, every item's
\* rectangle is inside the viewport inset by 50 on every side, for every
\* viewport of a size other than zero.
C10_FramedAlways ==
  (FitSettled /\ container.width > 0 /\ container.height > 0) => ItemsFramed

\* C10 as amended: once a fit-to-content animation has settled, every item's
\* rectangle is inside the viewport inset by 50 on every side, provided
\* min(availableW / boxW, availableH / boxH) is at least 0.1, so that the
\* lower clamp of the scale did not act.
C10_FramedUnlessClampedUp ==
  (FitSettled /\ RLe(R(1, 10), Candidate)) => ItemsFramed

\* a fit with a scale the clamp did not touch has settled
C10_Witness ==
  /\ FitSettled
  /\ val.scale = Candidate
  /\ RLt(R(1, 10), Candidate) /\ RLt(Candidate, R(3, 2))
  /\ ItemsFramed

\* C11: fit-to-content is idempotent and does not depend on the camera: a
\* fit invoked right after a fit (frames may have run between them, so the
\* camera differs) computes the same target as the first, and with the
\* initial items in the initial viewport it targets (293.75, 325, 1.5)
\* whatever the camera the events before it have left.
C11_FitIdempotent ==
  [][FitStep(last') =>
        /\ FitStep(cmd) => last'.props = cmd.props
        /\ (items = INITIAL_ITEMS /\ container.present
            /\ container.width = 1000 /\ container.height = 800) =>
             last'.props = Start([x |-> R(1175, 4), y |-> I(325),
                                  scale |-> R(3, 2)], FALSE)
     ]_vars

\* a fit invoked when the animation of the fit before it had settled: the
\* camera is on the target already and nothing starts moving
C11_Witness ==
  /\ FitStep(last) /\ last.props.start
  /\ events >= 2
  /\ val = last.props.to
  /\ ~InFlight

ButtonStep(l) == l.op = "performCenterZoom" /\ l.props.start
Center == <<R(container.width, 2), R(container.height, 2)>>
Clamp(q, lo, hi) == RMin(RMax(q, lo), hi)

\* C12 as claimed: a button zoom targets current * 1.3 for zoom-in and
\* current * 0.7 for zoom-out, clamped to [0.1, 5].
C12_ZoomOutSubtractive ==
  [][ButtonStep(last') =>
        last'.props.to.scale =
          Clamp(RMul(val.scale, IF last'.direction = "in"
                                THEN RAdd(I(1), R(3, 10))
                                ELSE RSub(I(1), R(3, 10))),
                R(1, 10), I(5))
     ]_vars

\* C12 as amended: a button zoom targets current * 1.3 for zoom-in and
\* current / 1.3 for zoom-out, clamped to [0.1, 5], animated (not
\* immediate), and keeps the world point under the centre of the viewport
\* (width / 2, height / 2); from scale 1 zoom-in targets 1.3.
C12_ZoomOutDivides ==
  [][ButtonStep(last') =>
        LET to == last'.props.to
        IN  /\ DOMAIN to = Keys
            /\ ~last'.props.immediate
            /\ to.scale =
                 Clamp(IF last'.direction = "in"
                       THEN RMul(val.scale, R(13, 10))
                       ELSE RDiv(val.scale, R(13, 10)),
                       R(1, 10), I(5))
            /\ WorldX(Center, to) = WorldX(Center, val)
            /\ WorldY(Center, to) = WorldY(Center, val)
            /\ (last'.direction = "in" /\ val.scale = I(1)) =>
                 to.scale = R(13, 10)
            /\ goal' = to
     ]_vars

\* zoom-out from scale 1 targets 1 / 1.3
C12_Witness ==
  /\ ButtonStep(last) /\ last.direction = "out"
  /\ val.scale = I(1)
  /\ last.props.to.scale = R(10, 13)
  /\ last.props.to.x # val.x

InRange(q, lo, hi) == RLe(lo, q) /\ RLe(q, hi)

\* C13: whatever transform the events so far have left (also a scale above
\* 5 reached by wheel or pinch), the target scale of a button zoom lies in
\* [0.1, 5] and the target scale of a ctrl-wheel or pinch zoom lies in
\* [0.1, 10].
C13_TargetsClamped ==
  /\ ButtonStep(last) => InRange(last.props.to.scale, R(1, 10), I(5))
  /\ (last.op \in {"onWheel", "onPinch"} /\ ZoomStep(last)) =>
       InRange(last.props.to.scale, R(1, 10), I(10))

\* a button zoom pressed at a scale above 5 targets 5
C13_Witness ==
  /\ ButtonStep(last)
  /\ RLt(I(5), val.scale)
  /\ last.props.to.scale = I(5)

\* C14 as claimed: in every reachable state the camera scale lies in
\* [0.1, 5].
C14_ScaleInButtonRange ==
  InRange(val.scale, R(1, 10), I(5))

\* C15 as claimed: an event of a pointer press, move or release whose target
\* is inside the UI overlay changes neither x nor y and leaves a running
\* camera animation as it is.
C15_OverlayLeavesCamera ==
  [][(last'.op = "onDrag" /\ last'.target = "overlay") => SpringsUnchanged
     ]_vars

\* the bounding box of the items from each item's centre and half its own
\* width and height
OwnMinX == FoldMin([i \in 1..Len(items) |->
                      RSub(items[i].x, R(items[i].width, 2))], Len(items))
OwnMaxX == FoldMax([i \in 1..Len(items) |->
                      RAdd(items[i].x, R(items[i].width, 2))], Len(items))
OwnMinY == FoldMin([i \in 1..Len(items) |->
                      RSub(items[i].y, R(items[i].height, 2))], Len(items))
OwnMaxY == FoldMax([i \in 1..Len(items) |->
                      RAdd(items[i].y, R(items[i].height, 2))], Len(items))

C17_NoDriftOfCenter ==
  [][ButtonStep(cmd') =>
        /\ WorldX(Center, val') = WorldX(Center, val)
        /\ WorldY(Center, val') = WorldY(Center, val)
        /\ WorldX(Center, val') = WorldX(Center, cmd'.props.to)
        /\ WorldY(Center, val') = WorldY(Center, cmd'.props.to)
        /\ \A j, k \in Keys :
             (left'[j] > 0 /\ left'[k] > 0) => left'[j] = left'[k]
        /\ \A k \in Keys : left'[k] = 0 => val'[k] = cmd'.props.to[k]
     ]_vars

\* a frame between the start and the end of the animation of a second
\* zoom-in, clicked j frames into the animation of the first (which went
\* from scale 1 to 1.3)
C17_Witness ==
  /\ ButtonStep(cmd) /\ cmd.direction = "in" /\ last.op = "tick"
  /\ events = 2 /\ zooms = 2
  /\ left.x > 0 /\ left.x = left.scale
  /\ \E j \in 1..(AnimTicks - 1) :
       goal.scale = RMul(R(13, 10), RAdd(I(1), RMul(R(3, 10), R(j, AnimTicks))))
  /\ val.scale # goal.scale

\* deltas on either side of the filter of 15
FilterDeltas == {-15, -14, 14, 15}
\* the pinch event the gesture library makes of a ctrl-wheel event
AsPinch(dy) == [ds |-> R(2, 5), type |-> "wheel", deltaY |-> dy]

\* C18: of a ctrl-wheel event with dy # 0, handed to both handlers, at most
\* one changes the transform: onWheel acts exactly when |dy| >= 15, and
\* then zooms; onPinch, on an event of type wheel, acts exactly when
\* |deltaY| < 15; a ctrl-wheel event with |dy| < 15 leaves the springs as
\* they are in onWheel, so it is not treated as a pan.
C18_OneHandlerPerCtrlWheel ==
  [][/\ (last'.op = "onWheel" /\ last'.ctrlKey /\ last'.d[2] # 0) =>
          LET dy == last'.d[2]
              p == onPinch(PinchAt, AsPinch(dy), val)
          IN  /\ last'.props.start <=> Abs(dy) >= 15
              /\ p.start <=> Abs(dy) < 15
              /\ ~(last'.props.start /\ p.start)
              /\ last'.props.start => "scale" \in DOMAIN last'.props.to
              /\ ~last'.props.start => SpringsUnchanged
     /\ (last'.op = "onPinch" /\ last'.e.type = "wheel") =>
          LET dy == last'.e.deltaY
              w == onWheel(<<0, dy>>, TRUE, WheelAt, val)
          IN  /\ last'.props.start <=> Abs(dy) < 15
              /\ w.start <=> Abs(dy) >= 15
              /\ ~(last'.props.start /\ w.start)
              /\ ~last'.props.start => SpringsUnchanged
     /\ (\/ last'.op = "onWheel" /\ last'.ctrlKey
         \/ last'.op = "onPinch" /\ last'.e.type = "wheel") =>
          \A dy \in FilterDeltas :
            /\ onWheel(<<0, dy>>, TRUE, WheelAt, val).start <=> Abs(dy) >= 15
            /\ onPinch(PinchAt, AsPinch(dy), val).start <=> Abs(dy) < 15
     ]_vars

\* a ctrl-wheel event with a small delta came during an animation and the
\* wheel handler left the camera alone
C18_Witness ==
  /\ last.op = "onWheel" /\ last.ctrlKey
  /\ last.d = <<10, 5>>
  /\ ~last.props.start
  /\ InFlight

\* C19: a ctrl-wheel zoom with dy >= 100 gives the transform that dy = 100
\* gives from the same transform and cursor, and one with dy <= -100 the
\* transform of dy = -100; dy > 0 never raises the scale and dy < 0 never
\* lowers it; the world point under the cursor (clientX, clientY) stays, and
\* the transform is applied at once.
C19_WheelZoomCapped ==
  [][(last'.op = "onWheel" /\ last'.ctrlKey /\ last'.props.start) =>
        LET dy == last'.d[2]
            to == last'.props.to
        IN  /\ dy >= 100 =>
                 last'.props = onWheel(<<last'.d[1], 100>>, TRUE, last'.at, val)
            /\ dy <= -100 =>
                 last'.props = onWheel(<<last'.d[1], -100>>, TRUE, last'.at, val)
            /\ dy > 0 => RLe(to.scale, val.scale)
            /\ dy < 0 => RLe(val.scale, to.scale)
            /\ WorldX(last'.at, to) = WorldX(last'.at, val)
            /\ WorldY(last'.at, to) = WorldY(last'.at, val)
            /\ last'.props.immediate
            /\ val' = to
     ]_vars

\* a ctrl-wheel event with dy = 150 zoomed out about the cursor, by the
\* factor of dy = 100
C19_Witness ==
  /\ last.op = "onWheel" /\ last.ctrlKey /\ last.props.start
  /\ last.d[2] = 150
  /\ val.scale = R(7, 10)
  /\ val.x = R(30, 1) /\ val.y = R(15, 1)

\* C20: the first event of a canvas drag (target outside the items) keeps
\* the x and y it reads, which may be in the middle of an animation, as the
\* gesture's memo; every later event of the gesture keeps that memo, and
\* after every held move outside the items with the memo set the camera is
\* at memo + movement in x and y, at once (no animation of x or y is left),
\* with the scale, its goal and its animation as they were.
C20_PanTracksMemo ==
  [][last'.op = "onDrag" =>
        /\ (last'.first /\ ~last'.inItem) => pan'.memo = <<val.x, val.y>>
        /\ (last'.down /\ ~last'.first) => pan'.memo = pan.memo
        /\ (last'.down /\ ~last'.first /\ ~last'.inItem /\ pan.memo # Unset) =>
             /\ last'.props.start /\ last'.props.immediate
             /\ val'.x = RAdd(pan.memo[1], I(last'.m[1]))
             /\ val'.y = RAdd(pan.memo[2], I(last'.m[2]))
             /\ left'.x = 0 /\ left'.y = 0
             /\ val'.scale = val.scale
             /\ goal'.scale = goal.scale
             /\ left'.scale = left.scale
     ]_vars

\* a held move of a drag that started during an animation of x, y and
\* scale: the camera is at the position of the press plus the movement,
\* while the scale goes on
C20_Witness ==
  /\ last.op = "onDrag" /\ last.down /\ ~last.first /\ ~last.inItem
  /\ last.m = <<30, -20>>
  /\ pan.memo # Unset
  /\ pan.memo[1] # I(0)
  /\ val.x = RAdd(pan.memo[1], I(30))
  /\ val.y = RAdd(pan.memo[2], I(-20))
  /\ left.scale > 0

\* the release of a canvas drag with its target outside the items
ReleaseStep(l) == l.op = "onDrag" /\ ~l.down /\ ~l.inItem

\* C21: the release of a canvas drag with velocity (vx, vy) and direction
\* (dirX, dirY) starts an animation (not immediate) of x and y only, to
\* x + vx * dirX * 200 and y + vy * dirY * 200 from the x and y at the
\* release; the scale, its goal and its animation stay; with velocity zero
\* the target is the current position and neither x nor y moves.
C21_InertiaTarget ==
  [][ReleaseStep(last') =>
        LET to == last'.props.to
            rel == last'.rel
        IN  /\ last'.props.start /\ ~last'.props.immediate
            /\ DOMAIN to = {"x", "y"}
            /\ to.x = RAdd(val.x, RMul(RMul(rel.v[1], I(rel.dir[1])), I(200)))
            /\ to.y = RAdd(val.y, RMul(RMul(rel.v[2], I(rel.dir[2])), I(200)))
            /\ goal'.x = to.x /\ goal'.y = to.y
            /\ val' = val
            /\ goal'.scale = goal.scale /\ left'.scale = left.scale
            /\ (rel.v = <<I(0), I(0)>>) =>
                 /\ to.x = val.x /\ to.y = val.y
                 /\ left'.x = 0 /\ left'.y = 0
     ]_vars

\* a drag moved by (30, -20) was released with velocity (0.5, 0.25) to the
\* right and up: the camera is thrown by (100, -50) from where it was
C21_Witness ==
  /\ ReleaseStep(last) /\ last.props.start
  /\ last.rel.v = <<R(1, 2), R(1, 4)>> /\ last.rel.dir = <<1, -1>>
  /\ val.x = I(30) /\ val.y = I(-20)
  /\ goal.x = I(130) /\ goal.y = I(-70)
  /\ left.x > 0 /\ left.y > 0

\* an inertia coast is in flight: the last handler was the release of a
\* canvas drag, and x or y is still on its way to the throw target
Coasting ==
  /\ ReleaseStep(cmd) /\ cmd.props.start
  /\ left.x > 0 \/ left.y > 0
\* the first event of a gesture or command after it
NextGesture(l) ==
  \/ l.op = "onDrag" /\ l.first
  \/ l.op = "onWheel" /\ ~l.ctrlKey /\ l.d # <<0, 0>>
  \/ l.op = "performCenterZoom"
  \/ l.op = "handleSmartCenter" /\ container.present
  \/ l.op = "itemOnDrag" /\ l.first

\* C22 as claimed: while an inertia coast is in flight, the first event of
\* the next gesture (a pan press, a wheel pan, a button zoom, a fit, the
\* start of an item drag) leaves neither x nor y moving to the throw target.
C22_CoastSuperseded ==
  [][(Coasting /\ NextGesture(last')) =>
        \A k \in {"x", "y"} : ~(left'[k] > 0 /\ goal'[k] = cmd.props.to[k])
     ]_vars

\* every spring is idle and sits on its goal, which for the springs the last
\* command named is that command's target
Settled ==
  /\ ~InFlight
  /\ \A k \in Keys : val[k] = goal[k]
  /\ Started(cmd) => \A k \in DOMAIN cmd.props.to : val[k] = cmd.props.to[k]

C24_ButtonNeverReverses ==
  [][ButtonStep(last') =>
        LET to == last'.props.to
        IN  /\ last'.direction = "in" => RLe(val.scale, to.scale)
            /\ last'.direction = "out" => RLe(to.scale, val.scale)
            /\ (\/ last'.direction = "in" /\ val.scale = ZOOM_MAX
                \/ last'.direction = "out" /\ val.scale = ZOOM_MIN) =>
                 (to.x = val.x /\ to.y = val.y /\ to.scale = val.scale)
     ]_vars

\* the click's target scale before clamping lies within the buttons' range
Unclamped(l) ==
  LET raw == IF l.direction = "in"
             THEN RMul(l.from.scale, RAdd(I(1), ZOOM_STEP))
             ELSE RDiv(l.from.scale, RAdd(I(1), ZOOM_STEP))
  IN  RLe(ZOOM_MIN, raw) /\ RLe(raw, ZOOM_MAX)

\* C25: when a button zoom has settled on its target and the next command, in
\* the same viewport, is a click on the opposite button, neither of the two
\* clamped, the second click targets the x, y and scale the first click
\* started from: in then out, and out then in, are round trips.
C25_ButtonRoundTrip ==
  [][(/\ ButtonStep(cmd) /\ ButtonStep(last')
      /\ ~InFlight /\ val = cmd.props.to
      /\ last'.direction # cmd.direction
      /\ Unclamped(cmd) /\ Unclamped(last')) =>
        /\ last'.props.to.x = cmd.from.x
        /\ last'.props.to.y = cmd.from.y
        /\ last'.props.to.scale = cmd.from.scale
     ]_vars

\* zoom-in from the initial camera settled on scale 1.3 off the origin, then
\* zoom-out was clicked and has settled: the camera is back on (0, 0, 1)
C25_Witness ==
  /\ ButtonStep(cmd) /\ cmd.direction = "out" /\ Unclamped(cmd)
  /\ cmd.from.scale = R(13, 10)
  /\ cmd.from.x = RSub(Center[1], RMul(R(13, 10), Center[1]))
  /\ cmd.from.y = RSub(Center[2], RMul(R(13, 10), Center[2]))
  /\ cmd.from.x # I(0)
  /\ events = 2 /\ zooms = 2
  /\ last.op = "tick" /\ ~InFlight
  /\ val = [x |-> I(0), y |-> I(0), scale |-> I(1)]

\* C26 as claimed: whenever a held, non-first event of the canvas drag has
\* its target outside the items, and so reads memo[0] and memo[1], the memo
\* was set by the first event of the gesture, and the handler does not throw.
C26_MemoSetWhenRead ==
  [][(/\ last'.op = "onDrag" /\ ~last'.first /\ last'.down
      /\ ~last'.inItem) =>
        (pan.memo # Unset /\ ~last'.threw)
     ]_vars

====
